---------------------------- MODULE Spec2Model ----------------------------
(***************************************************************************)
(* ICIE: the orchestrator (extension.ts: class ICIE, class Directory,      *)
(* inputbox, choice) and the process bridge (icie-ui/src/native.ts: class  *)
(* Logic).                                                                 *)
(*                                                                         *)
(* Every triggered command is an asynchronous task.  One action of the     *)
(* model is the resolution of the promise a task awaits together with the  *)
(* synchronous code that follows it up to the next await.                  *)
(***************************************************************************)
EXTENDS Integers, Sequences, FiniteSets, TLC

VARIABLES
    tasks,      \* orchestrator: task id -> the state of one triggered command
    srcM,       \* file system: stat of <root>/main.cpp
    exeM,       \* file system: stat of <root>/main.e
    vacant,     \* file system: the project names that do not exist under homedir()
    dir,        \* ICIE.dir.base, the workspace root path
    kid,        \* bridge: the worker process, "running" or "exited"
    stdout,     \* bridge: bytes the worker wrote that no 'data' event carried yet
    ended,      \* bridge: the worker's output stream has ended
    buffer,     \* bridge: the buffer of Logic.parser
    listeners,  \* bridge: number of callbacks registered with recv
    received,   \* bridge: callback -> the Reactions it was called with
    emitted,    \* the Reactions the worker has written, in order
    tail,       \* the truncated document the worker wrote before it exited
    chunks,     \* number of 'data' events so far
    stdin,      \* the Impulses the worker's input stream received
    afterExit,  \* outcomes of the send calls made after the worker exited
    bridgeErr   \* the error the bridge has failed with

orchVars == <<tasks, srcM, exeM, vacant, dir>>
bridgeVars == <<kid, stdout, ended, buffer, listeners, received, emitted,
                tail, chunks, stdin, afterExit, bridgeErr>>
vars == <<orchVars, bridgeVars>>

---------------------------------------------------------------------------
(* Bounds of the model *)

\* initial modification times range over 0..MaxTime
MaxTime == 1
\* at most this many of the 100 project names do not exist initially
MaxFree == 1

\* Two commands are triggered in one behaviour; the second may be triggered
\* at any time, also while the first is suspended.
TaskIds == {1, 2}

\* the time of every write made during the behaviour: later than every
\* initial modification time
Now == MaxTime + 1

---------------------------------------------------------------------------
(* Directory: path derivation.  A path is a sequence of characters. *)

Bases == { <<"/", "w">>, <<"/", "a", "/", "b">> }

source(base) == base \o <<"/", "m", "a", "i", "n", ".", "c", "p", "p">>

executable(base) ==
    LET src == source(base)
    IN  SubSeq(src, 1, Len(src) - 4) \o <<".", "e">>

testsDirectory(base) == base \o <<"/", "t", "e", "s", "t", "s">>

---------------------------------------------------------------------------
(* Project names *)

adjectives == << "playful", "shining", "sparkling", "rainbow", "kawaii",
                 "superb", "amazing", "glowing", "blessed", "smiling" >>

animals == << "capybara", "squirrel", "spider", "anteater", "hamster",
              "whale", "eagle", "zebra", "dolphin", "hedgehog" >>

\* choice(xs): xs[floor(random * xs.length)], any element of xs
choice(xs) == { xs[i] : i \in 1..Len(xs) }

\* randomName(): choice(adjectives) + '-' + choice(animals)
randomName == { <<a, "-", n>> : a \in choice(adjectives), n \in choice(animals) }

\* Every name is one of the 100 names of randomName: the directory of
\* homedir() is kept as the set of those names that do not exist in it.

\* the first k names of the first adjective
FirstNames(k) == { <<adjectives[1], "-", animals[j]>> : j \in 1..k }

\* the argument of randomProjectName in triggerInit
Tries == 5

---------------------------------------------------------------------------
(* File status *)

Absent == [present |-> FALSE, mtime |-> 0]
File(m) == [present |-> TRUE, mtime |-> m]
Stats == {Absent} \cup { File(m) : m \in 0..MaxTime }

\* the decision of requiresCompilation from the two stat results:
\* afs.stat(src) is awaited outside the try block, afs.stat(exe) inside it
requiresCompilation(statsrc, statexe) ==
    IF ~statsrc.present THEN "threw"
    ELSE IF ~statexe.present THEN "true"
    ELSE IF statsrc.mtime <= statexe.mtime THEN "false"
    ELSE "true"

---------------------------------------------------------------------------
(* Tasks *)

Commands == {"build", "test", "init", "submit"}

NoTask ==
    [ cmd      |-> "none",     \* the command that was triggered
      pc       |-> "idle",     \* the await the task is suspended on
      out      |-> "none",     \* outcome of the promise of the trigger* call
      command  |-> "none",     \* what the registered command handler returned
      dropped  |-> FALSE,      \* the promise rejected and nothing handles it
      maybe    |-> "none",     \* what the latest showInputBox resolved with
      masked   |-> FALSE,      \* options.password of the latest showInputBox
      taskUrl  |-> "none",     \* manifest.task_url of the loaded manifest
      submitUrl |-> "none",    \* the task URL of the submit Impulse
      flush    |-> "none",     \* result of the latest saveAll of this task
      nflush   |-> 0,          \* saveAll calls
      statsrc  |-> Absent,     \* statsrc of requiresCompilation
      rc       |-> "unset",    \* result of requiresCompilation
      nbuild   |-> 0,          \* build Impulses sent
      buildSrc |-> <<>>,       \* the argument of the build Impulse
      buildRes |-> "none",     \* the worker's build result
      ntest    |-> 0,          \* test Impulses sent
      testExe  |-> <<>>,       \* the arguments of the test Impulse
      testDir  |-> <<>>,
      reported |-> "none",     \* the boolean the worker reported for the test
      ret      |-> "none",     \* the value triggerTest returned
      manifest |-> "unloaded", \* result of mnfst.load
      nsubmit  |-> 0,          \* submit Impulses sent
      ninit    |-> 0,          \* init Impulses sent
      nauth    |-> 0,          \* authentication challenges raised by the worker
      nuser    |-> 0,          \* username prompts shown
      npass    |-> 0,          \* password prompts shown
      ncreds   |-> 0,          \* AuthResponses returned to the worker
      tries    |-> 0,          \* tries of randomProjectName
      name     |-> <<>>,       \* project_name
      nmkdir   |-> 0,          \* directories created
      saved    |-> FALSE,      \* the manifest was saved into project_dir
      copied   |-> FALSE,      \* the template was copied into project_dir
      opened   |-> FALSE ]     \* vscode.openFolder was executed

\* the command's promise settles: the locals of the call are gone
Settle(r, outcome) ==
    [r EXCEPT !.pc = "done", !.out = outcome, !.flush = "none",
              !.statsrc = Absent, !.tries = 0, !.name = <<>>,
              !.maybe = "none", !.masked = FALSE]

\* the call throws: its promise rejects.  The handlers registered by
\* activate call icie.trigger*() and drop the promise, so the rejection
\* reaches no handler.
Fail(r, err) == [Settle(r, err) EXCEPT !.dropped = TRUE]
Finish(r) == Settle(r, "ok")

\* assureAllSaved: vscode.workspace.saveAll(false).then(something => {})
assureAllSaved(r, at) == [r EXCEPT !.pc = at, !.nflush = @ + 1, !.flush = "pending"]

\* triggerBuild up to its first await
triggerBuild(r) == assureAllSaved(r, "saveBuild")

\* triggerBuild that does not await ci.build before the test is started
ciBuild_FanOut(r) ==
    [r EXCEPT !.pc = "testWait", !.nbuild = @ + 1, !.buildSrc = source(dir),
              !.ntest = @ + 1, !.testExe = executable(dir),
              !.testDir = testsDirectory(dir)]

\* triggerBuild after assureAllSaved: ci.build(source)
ciBuild(r) ==
    [r EXCEPT !.pc = "buildWait", !.nbuild = @ + 1, !.buildSrc = source(dir)]

\* requiresCompilation that reads the stats without saving first
requiresCompilationStart_NoFlush(r) == [r EXCEPT !.pc = "statSrc"]

\* requiresCompilation up to its first await
requiresCompilationStart(r) == assureAllSaved(r, "saveCheck")

\* assureCompiled up to its first await
assureCompiled(r) == requiresCompilationStart(r)

\* triggerTest up to its first await
triggerTest(r) == assureCompiled(r)

\* triggerTest after assureCompiled: ci.test(executable, testdir)
ciTest(r) ==
    [r EXCEPT !.pc = "testWait", !.ntest = @ + 1,
              !.testExe = executable(dir), !.testDir = testsDirectory(dir)]

\* assureCompiled that does not build
assureCompiledThen_NoBuild(r, need) == ciTest(r)

\* assureCompiled after requiresCompilation returned need
assureCompiledThen(r, need) ==
    IF need THEN triggerBuild(r) ELSE ciTest(r)

\* assureTested up to its first await
assureTested(r) == triggerTest(r)

\* triggerSubmit up to its first await
triggerSubmit(r) == assureTested(r)

\* triggerSubmit after assureTested: mnfst.load(rootPath + '/.icie')
mnfstLoad(r) == [r EXCEPT !.pc = "loadManifest"]

\* assureTested that does not throw
assureTestedThen_NoStop(r, passed) == mnfstLoad(r)

\* assureTested after triggerTest returned passed
assureTestedThen(r, passed) ==
    IF ~passed THEN Fail(r, "PreconditionFailed") ELSE mnfstLoad(r)

\* triggerTest that runs the test again when it did not pass
triggerTestReturn_Retry(r, passed) ==
    IF ~passed THEN ciTest(r)
    ELSE IF r.cmd = "submit" THEN mnfstLoad([r EXCEPT !.ret = "true"])
    ELSE Finish([r EXCEPT !.ret = "true"])

\* triggerTest returns the value of ci.test to its caller
triggerTestReturn(r, passed) ==
    LET r1 == [r EXCEPT !.ret = IF passed THEN "true" ELSE "false"]
    IN  IF r.cmd = "submit" THEN assureTestedThen(r1, passed) ELSE Finish(r1)

\* triggerBuild returns to its caller
triggerBuildReturn(r) ==
    IF r.cmd = "build" THEN Finish(r) ELSE ciTest(r)

\* triggerSubmit after mnfst.load: ci.submit(source, task_url, authreq => ...)
ciSubmit(r) ==
    [r EXCEPT !.pc = "submitWait", !.nsubmit = @ + 1, !.submitUrl = r.taskUrl]

\* the task URLs a manifest can hold
Urls == {"u", "v"}

\* triggerSubmit that submits whatever mnfst.load did
mnfstLoadThen_Anyway(r, res, url) ==
    ciSubmit([r EXCEPT !.manifest = res])

\* triggerSubmit after mnfst.load settled: with the manifest it goes on to
\* ci.submit with manifest.task_url, a rejection of the load is not caught
mnfstLoadThen(r, res, url) ==
    IF res = "loaded"
    THEN ciSubmit([r EXCEPT !.manifest = res, !.taskUrl = url])
    ELSE Fail([r EXCEPT !.manifest = res], res)

\* the options of every inputbox call of the file: { prompt: ... }, the
\* password option is left undefined
PromptOnly == [password |-> FALSE]

\* inputbox(options) up to its await: vscode.window.showInputBox(options)
inputbox(r, at, options) == [r EXCEPT !.pc = at, !.masked = options.password]

\* what showInputBox resolves with: undefined when dismissed, else the text
Answers == {"undefined", "", "u"}

\* inputbox that returns whatever showInputBox resolved with
inputboxThen_NoThrow(r, maybe, next) == [next EXCEPT !.maybe = maybe]

\* inputbox after showInputBox resolved with maybe: returns maybe to the
\* caller, which goes on as next, or throws when maybe is undefined
inputboxThen(r, maybe, next) ==
    IF maybe # "undefined" THEN [next EXCEPT !.maybe = maybe]
    ELSE [Fail(r, "PromptCancelled") EXCEPT !.maybe = maybe]

\* askDescriptionURL
askDescriptionURL(r) == inputbox(r, "askURL", PromptOnly)

\* triggerInit up to its first await
triggerInit(r) == askDescriptionURL(r)

\* triggerInit after afs.mkdir: ci.init(task_url, project_dir, domain => ...)
ciInit(r) == [r EXCEPT !.pc = "initWait", !.nmkdir = @ + 1, !.ninit = @ + 1]

\* triggerInit after ci.init: mnfst.save(project_dir + '/.icie', manifest)
mnfstSave(r) == [r EXCEPT !.pc = "saveManifest"]

\* triggerInit that opens the folder right after the manifest was saved
confLoad_OpenFolder(r) == [r EXCEPT !.pc = "openFolder", !.saved = TRUE]

\* triggerInit after mnfst.save: conf.load()
confLoad(r) == [r EXCEPT !.pc = "loadConf", !.saved = TRUE]

\* triggerInit after conf.load: afs.copy(config.template.path, dir2.source())
afsCopy(r) == [r EXCEPT !.pc = "copy"]

\* triggerInit after afs.copy: executeCommand('vscode.openFolder', ...)
openFolder(r) == [r EXCEPT !.pc = "openFolder", !.copied = TRUE]

\* respondAuthreq that asks for the password at once
respondAuthreq_PasswordFirst(r) ==
    [inputbox(r, "askPass", PromptOnly) EXCEPT !.npass = @ + 1]

\* respondAuthreq up to its first await: the username prompt
respondAuthreq(r) ==
    [inputbox(r, "askUser", PromptOnly) EXCEPT !.nuser = @ + 1]

\* respondAuthreq after the username was answered: the password prompt
respondAuthreqPassword(r) ==
    [inputbox(r, "askPass", PromptOnly) EXCEPT !.npass = @ + 1]

\* the call of ci.init or ci.submit a task is inside
WorkerCall(r) == IF r.cmd = "init" THEN "initWait" ELSE "submitWait"

\* respondAuthreq returns { username, password }
respondAuthreqReturn(r) == [r EXCEPT !.pc = WorkerCall(r), !.ncreds = @ + 1]

\* randomProjectName whose loop runs while tries >= 0
randomProjectName_OffByOne(r, n) ==
    IF n >= 0 THEN [r EXCEPT !.pc = "naming", !.tries = n]
    ELSE Fail(r, "NoFreeNameFound")

\* randomProjectName(tries) up to its first await
randomProjectName(r, n) ==
    IF n > 0 THEN [r EXCEPT !.pc = "naming", !.tries = n]
    ELSE Fail(r, "NoFreeNameFound")

\* a turn of the loop that returns the sample without looking at exists
randomProjectNameTurn_NoCheck(r, name, exists) ==
    [r EXCEPT !.name = name, !.pc = "mkdir", !.tries = 0]

\* one turn of the loop of randomProjectName: name was sampled and
\* afs.exists(homedir() + '/' + name) answered exists
randomProjectNameTurn(r, name, exists) ==
    IF ~exists
    THEN [r EXCEPT !.name = name, !.pc = "mkdir", !.tries = 0]
    ELSE randomProjectName(r, r.tries - 1)

---------------------------------------------------------------------------
(* Actions of the orchestrator *)

Set(t, r) == tasks' = [tasks EXCEPT ![t] = r]

\* activate: the registered command handlers call icie.trigger*()
TriggerCommand(t, c) ==
    /\ tasks[t].cmd = "none"
    /\ \A u \in TaskIds : u < t => tasks[u].cmd # "none"
    /\ LET r == [NoTask EXCEPT !.cmd = c, !.out = "running",
                                !.command = "undefined"]
       IN  Set(t, CASE c = "build"  -> triggerBuild(r)
                    [] c = "test"   -> triggerTest(r)
                    [] c = "submit" -> triggerSubmit(r)
                    [] c = "init"   -> triggerInit(r))
    /\ UNCHANGED <<srcM, exeM, vacant, dir, bridgeVars>>

\* saveAll resolves (true: every document saved, possibly rewriting the
\* source; false: some document could not be saved) or rejects
SaveAllDone(t) ==
    /\ tasks[t].pc \in {"saveBuild", "saveCheck"}
    /\ \E res \in {"saved", "unsaved", "rejected"}, wrote \in BOOLEAN :
         /\ wrote => (srcM.present /\ res = "saved")
         /\ srcM' = IF wrote THEN File(Now) ELSE srcM
         /\ LET r == [tasks[t] EXCEPT !.flush = res]
            IN  Set(t, IF res = "rejected" THEN Fail(r, "IOError")
                       ELSE IF r.pc = "saveBuild" THEN ciBuild(r)
                       ELSE [r EXCEPT !.pc = "statSrc"])
    /\ UNCHANGED <<exeM, vacant, dir, bridgeVars>>

\* requiresCompilation: afs.stat(src) answers
StatSource(t) ==
    /\ tasks[t].pc = "statSrc"
    /\ LET r == [tasks[t] EXCEPT !.statsrc = srcM]
       IN  Set(t, IF ~srcM.present
                  THEN Fail([r EXCEPT !.rc = "threw"], "IOError")
                  ELSE [r EXCEPT !.pc = "statExe"])
    /\ UNCHANGED <<srcM, exeM, vacant, dir, bridgeVars>>

\* requiresCompilation: afs.stat(exe) answers, requiresCompilation returns
StatExecutable(t) ==
    /\ tasks[t].pc = "statExe"
    /\ LET res == requiresCompilation(tasks[t].statsrc, exeM)
           r == [tasks[t] EXCEPT !.statsrc = Absent, !.rc = res]
       IN  Set(t, assureCompiledThen(r, res = "true"))
    /\ UNCHANGED <<srcM, exeM, vacant, dir, bridgeVars>>

\* ci.build settles: the worker built the executable, or failed
BuildReply(t) ==
    /\ tasks[t].pc = "buildWait"
    /\ \E ok \in BOOLEAN :
         /\ exeM' = IF ok THEN File(Now) ELSE exeM
         /\ LET r == [tasks[t] EXCEPT !.buildRes = IF ok THEN "ok" ELSE "fail"]
            IN  Set(t, IF ok THEN triggerBuildReturn(r)
                       ELSE Fail(r, "WorkerFailure"))
    /\ UNCHANGED <<srcM, vacant, dir, bridgeVars>>

\* ci.test settles: the worker reports whether all tests passed, or fails
TestReply(t) ==
    /\ tasks[t].pc = "testWait"
    /\ \E res \in {"true", "false", "fail"} :
         LET r == [tasks[t] EXCEPT !.reported = res]
         IN  Set(t, IF res = "fail" THEN Fail(r, "WorkerFailure")
                    ELSE triggerTestReturn(r, res = "true"))
    /\ UNCHANGED <<srcM, exeM, vacant, dir, bridgeVars>>

\* mnfst.load settles
ManifestLoad(t) ==
    /\ tasks[t].pc = "loadManifest"
    /\ \E res \in {"loaded", "ManifestMissing", "ManifestCorrupt"}, url \in Urls :
         Set(t, mnfstLoadThen(tasks[t], res, url))
    /\ UNCHANGED <<srcM, exeM, vacant, dir, bridgeVars>>

\* ci.submit settles
SubmitReply(t) ==
    /\ tasks[t].pc = "submitWait"
    /\ \E ok \in BOOLEAN :
         Set(t, IF ok THEN Finish(tasks[t]) ELSE Fail(tasks[t], "WorkerFailure"))
    /\ UNCHANGED <<srcM, exeM, vacant, dir, bridgeVars>>

\* the worker raises an authentication challenge inside ci.submit or
\* ci.init: the callback passed by triggerSubmit / triggerInit is called
AuthChallenge(t) ==
    /\ tasks[t].pc \in {"submitWait", "initWait"}
    /\ tasks[t].nauth = 0
    /\ Set(t, respondAuthreq([tasks[t] EXCEPT !.nauth = @ + 1]))
    /\ UNCHANGED <<srcM, exeM, vacant, dir, bridgeVars>>

\* the username prompt settles: answered (any text, also none) or dismissed
UsernameAnswer(t) ==
    /\ tasks[t].pc = "askUser"
    /\ \E maybe \in Answers :
         Set(t, inputboxThen(tasks[t], maybe, respondAuthreqPassword(tasks[t])))
    /\ UNCHANGED <<srcM, exeM, vacant, dir, bridgeVars>>

\* the password prompt settles
PasswordAnswer(t) ==
    /\ tasks[t].pc = "askPass"
    /\ \E maybe \in Answers :
         Set(t, inputboxThen(tasks[t], maybe, respondAuthreqReturn(tasks[t])))
    /\ UNCHANGED <<srcM, exeM, vacant, dir, bridgeVars>>

\* the task URL prompt settles
UrlAnswer(t) ==
    /\ tasks[t].pc = "askURL"
    /\ \E maybe \in Answers :
         Set(t, inputboxThen(tasks[t], maybe, randomProjectName(tasks[t], Tries)))
    /\ UNCHANGED <<srcM, exeM, vacant, dir, bridgeVars>>

\* The names randomName() can return, up to the successor they lead to: a
\* sample that exists is dropped by the loop, so one existing sample stands
\* for all of them; every free sample is kept.
Samples ==
    LET taken == randomName \ vacant
    IN  (randomName \cap vacant) \cup
        (IF taken = {} THEN {} ELSE {CHOOSE n \in taken : TRUE})

\* afs.exists answers for the name sampled by this turn of the loop
NameCheck(t) ==
    /\ tasks[t].pc = "naming"
    /\ \E name \in Samples :
         Set(t, randomProjectNameTurn(tasks[t], name, name \notin vacant))
    /\ UNCHANGED <<srcM, exeM, vacant, dir, bridgeVars>>

\* afs.mkdir(project_dir) settles; on success ci.init is called
Mkdir(t) ==
    /\ tasks[t].pc = "mkdir"
    /\ IF tasks[t].name \notin vacant
       THEN /\ Set(t, Fail(tasks[t], "IOError"))
            /\ UNCHANGED vacant
       ELSE /\ vacant' = vacant \ {tasks[t].name}
            /\ Set(t, ciInit(tasks[t]))
    /\ UNCHANGED <<srcM, exeM, dir, bridgeVars>>

\* ci.init settles; on success mnfst.save is called
InitReply(t) ==
    /\ tasks[t].pc = "initWait"
    /\ \E ok \in BOOLEAN :
         Set(t, IF ok THEN mnfstSave(tasks[t])
                ELSE Fail(tasks[t], "WorkerFailure"))
    /\ UNCHANGED <<srcM, exeM, vacant, dir, bridgeVars>>

\* mnfst.save settles; on success conf.load is called
ManifestSave(t) ==
    /\ tasks[t].pc = "saveManifest"
    /\ \E ok \in BOOLEAN :
         Set(t, IF ok THEN confLoad(tasks[t])
                ELSE Fail(tasks[t], "IOError"))
    /\ UNCHANGED <<srcM, exeM, vacant, dir, bridgeVars>>

\* conf.load settles; on success afs.copy is called
ConfLoad(t) ==
    /\ tasks[t].pc = "loadConf"
    /\ \E ok \in BOOLEAN :
         Set(t, IF ok THEN afsCopy(tasks[t])
                ELSE Fail(tasks[t], "IOError"))
    /\ UNCHANGED <<srcM, exeM, vacant, dir, bridgeVars>>

\* afs.copy settles; on success vscode.openFolder is executed
TemplateCopy(t) ==
    /\ tasks[t].pc = "copy"
    /\ \E ok \in BOOLEAN :
         Set(t, IF ok THEN openFolder(tasks[t])
                ELSE Fail(tasks[t], "IOError"))
    /\ UNCHANGED <<srcM, exeM, vacant, dir, bridgeVars>>

\* vscode.openFolder settles
OpenFolder(t) ==
    /\ tasks[t].pc = "openFolder"
    /\ Set(t, Finish([tasks[t] EXCEPT !.opened = TRUE]))
    /\ UNCHANGED <<srcM, exeM, vacant, dir, bridgeVars>>

---------------------------------------------------------------------------
(* The wire: one JSON document and a newline per message.  A document is a *)
(* sequence of bytes; the bytes that matter to framing are the braces, the *)
(* quote, the backslash and the newline.                                   *)

Quote == "\""
Backslash == "\\"
Newline == "\n"

Reactions == {"status", "info_message", "console_log"}

\* JSON.stringify of a Reaction, as the worker writes it:
\*   status        {a}        no string
\*   info_message  {"}"}      a string that holds a closing brace
\*   console_log   {"\"}"}    a string that holds an escaped quote and a brace
Encode(r) ==
    CASE r = "status"       -> <<"{", "a", "}">>
      [] r = "info_message" -> <<"{", Quote, "}", Quote, "}">>
      [] r = "console_log"  -> <<"{", Quote, Backslash, Quote, "}", Quote, "}">>

\* JSON.parse of a complete document
Decode(doc) ==
    IF \E r \in Reactions : Encode(r) = doc
    THEN CHOOSE r \in Reactions : Encode(r) = doc
    ELSE "invalid"

Impulses == {"trigger_build", "trigger_test"}

\* number of Reactions the worker writes
MaxReactions == 2
\* number of send calls
MaxSends == 1
\* number of 'data' events
MaxChunks == 2
\* number of callbacks registered with recv
MaxHandlers == 2

\* the byte stream of a sequence of Reactions
RECURSIVE Stream(_)
Stream(rs) ==
    IF rs = <<>> THEN <<>>
    ELSE Encode(Head(rs)) \o <<Newline>> \o Stream(Tail(rs))

\* the documents a worker that dies while writing leaves unfinished
Truncated ==
    { SubSeq(Encode(r), 1, n) : r \in Reactions, n \in 1..2 }

---------------------------------------------------------------------------
(* multijson.Parser: write appends to the buffer; read removes and returns *)
(* every complete document of the buffer, in order, and keeps a trailing   *)
(* partial document.  A document is complete when the structural scan      *)
(* reaches the brace that closes it; braces inside string literals and     *)
(* escaped quotes are not structural.                                      *)

parserWrite(buf, chunk) == buf \o chunk

RECURSIVE Scan(_, _, _, _, _, _, _)
Scan(buf, i, depth, inStr, esc, start, out) ==
    IF i > Len(buf)
    THEN [values |-> out, rest |-> SubSeq(buf, start, Len(buf)), err |-> FALSE]
    ELSE LET c == buf[i]
             bad == [values |-> <<>>, rest |-> buf, err |-> TRUE]
         IN  IF depth = 0
             THEN IF c = Newline THEN Scan(buf, i + 1, 0, FALSE, FALSE, i + 1, out)
                  ELSE IF c = "{" THEN Scan(buf, i + 1, 1, FALSE, FALSE, i, out)
                  ELSE bad
             ELSE IF inStr
             THEN IF esc THEN Scan(buf, i + 1, depth, TRUE, FALSE, start, out)
                  ELSE IF c = Backslash
                       THEN Scan(buf, i + 1, depth, TRUE, TRUE, start, out)
                  ELSE IF c = Quote
                       THEN Scan(buf, i + 1, depth, FALSE, FALSE, start, out)
                  ELSE Scan(buf, i + 1, depth, TRUE, FALSE, start, out)
             ELSE IF c = Quote THEN Scan(buf, i + 1, depth, TRUE, FALSE, start, out)
             ELSE IF c = "{" THEN Scan(buf, i + 1, depth + 1, FALSE, FALSE, start, out)
             ELSE IF c = "}"
                  THEN IF depth > 1
                       THEN Scan(buf, i + 1, depth - 1, FALSE, FALSE, start, out)
                       ELSE LET v == Decode(SubSeq(buf, start, i))
                            IN  IF v = "invalid" THEN bad
                                ELSE Scan(buf, i + 1, 0, FALSE, FALSE, i + 1,
                                          Append(out, v))
             ELSE Scan(buf, i + 1, depth, FALSE, FALSE, start, out)

parserRead(buf) == Scan(buf, 1, 0, FALSE, FALSE, 1, <<>>)

---------------------------------------------------------------------------
(* Logic: the process bridge *)

\* a listener that calls back for the first Reaction of a read only
onData_FirstOnly(st, i, chunk) ==
    LET res == parserRead(parserWrite(st.buffer, chunk))
    IN  IF res.err
        THEN [st EXCEPT !.buffer = res.rest, !.err = TRUE]
        ELSE [st EXCEPT !.buffer = res.rest,
                        !.received[i] = IF res.values = <<>> THEN @
                                        ELSE Append(@, Head(res.values))]

\* The 'data' listener that recv registers for callback i, run on one chunk:
\* parser.write(chunk), then callback(reaction) for each of parser.read().
\* st is [buffer, received, err]; an exception thrown by read ends the run.
onData(st, i, chunk) ==
    LET res == parserRead(parserWrite(st.buffer, chunk))
    IN  IF res.err
        THEN [st EXCEPT !.buffer = res.rest, !.err = TRUE]
        ELSE [st EXCEPT !.buffer = res.rest,
                        !.received[i] = @ \o res.values]

\* stdout.emit('data', chunk): the listeners run in the order of registration
RECURSIVE emitData(_, _, _, _)
emitData(st, i, n, chunk) ==
    IF i > n \/ st.err THEN st
    ELSE emitData(onData(st, i, chunk), i + 1, n, chunk)

\* recv(callback): this.kid.stdout.on('data', ...).  The callbacks are
\* registered before the stream delivers its first chunk.
Recv ==
    /\ listeners < MaxHandlers
    /\ Len(stdout) = Len(Stream(emitted)) + Len(tail)
    /\ listeners' = listeners + 1
    /\ UNCHANGED <<kid, stdout, ended, buffer, received, emitted, tail, chunks,
                   stdin, afterExit, bridgeErr, orchVars>>

\* the worker writes one Reaction to its standard output
WorkerEmit(r) ==
    /\ kid = "running"
    /\ Len(emitted) < MaxReactions
    /\ emitted' = Append(emitted, r)
    /\ stdout' = stdout \o Encode(r) \o <<Newline>>
    /\ UNCHANGED <<kid, ended, buffer, listeners, received, tail, chunks,
                   stdin, afterExit, bridgeErr, orchVars>>

\* the worker exits, possibly in the middle of writing a document
WorkerExit(t) ==
    /\ kid = "running"
    /\ kid' = "exited"
    /\ tail' = t
    /\ stdout' = stdout \o t
    /\ UNCHANGED <<ended, buffer, listeners, received, emitted, chunks,
                   stdin, afterExit, bridgeErr, orchVars>>

\* a 'data' event carries the next k bytes of the worker's output
Data(k) ==
    /\ listeners >= 1
    /\ bridgeErr = "none"
    /\ k <= Len(stdout)
    /\ chunks < MaxChunks
    /\ chunks' = chunks + 1
    /\ LET chunk == SubSeq(stdout, 1, k)
           st == emitData([buffer |-> buffer, received |-> received,
                           err |-> FALSE], 1, listeners, chunk)
       IN  /\ buffer' = st.buffer
           /\ received' = st.received
           /\ bridgeErr' = IF st.err THEN "ProtocolError" ELSE "none"
    /\ stdout' = SubSeq(stdout, k + 1, Len(stdout))
    /\ UNCHANGED <<kid, ended, listeners, emitted, tail, stdin, afterExit,
                   orchVars>>

DataEvent == \E k \in 1..Len(stdout) : Data(k)

\* the output stream ends; Logic has registered no listener for that
StreamEnd ==
    /\ kid = "exited"
    /\ stdout = <<>>
    /\ listeners >= 1
    /\ ~ended
    /\ ended' = TRUE
    /\ UNCHANGED <<kid, stdout, buffer, listeners, received, emitted, tail,
                   chunks, stdin, afterExit, bridgeErr, orchVars>>

\* send(impulse): this.kid.stdin.write(JSON.stringify(impulse) + "\n").
\* The call returns whether or not the worker is still there; what is
\* written to the input of a worker that exited reaches nobody.
send(impulse) ==
    /\ stdin' = IF kid = "running" THEN Append(stdin, impulse) ELSE stdin
    /\ afterExit' = IF kid = "running" THEN afterExit
                    ELSE Append(afterExit, "returned")

Send(impulse) ==
    /\ Len(stdin) + Len(afterExit) < MaxSends
    /\ send(impulse)
    /\ UNCHANGED <<kid, stdout, ended, buffer, listeners, received, emitted,
                   tail, chunks, bridgeErr, orchVars>>

BridgeInit ==
    /\ kid = "running"
    /\ stdout = <<>>
    /\ ended = FALSE
    /\ buffer = <<>>
    /\ listeners = 0
    /\ received = [i \in 1..MaxHandlers |-> <<>>]
    /\ emitted = <<>>
    /\ tail = <<>>
    /\ chunks = 0
    /\ stdin = <<>>
    /\ afterExit = <<>>
    /\ bridgeErr = "none"

BridgeNext ==
    \/ Recv
    \/ \E r \in Reactions : WorkerEmit(r)
    \/ \E t \in Truncated \cup {<<>>} : WorkerExit(t)
    \/ DataEvent
    \/ StreamEnd
    \/ \E impulse \in Impulses : Send(impulse)

---------------------------------------------------------------------------
(* The orchestrator *)

Init ==
    /\ tasks = [t \in TaskIds |-> NoTask]
    /\ srcM \in Stats
    /\ exeM \in Stats
    /\ vacant \in { FirstNames(k) : k \in 0..MaxFree }
    /\ dir \in Bases
    /\ BridgeInit

Next ==
    \E t \in TaskIds :
        \/ \E c \in Commands : TriggerCommand(t, c)
        \/ SaveAllDone(t)
        \/ StatSource(t)
        \/ StatExecutable(t)
        \/ BuildReply(t)
        \/ TestReply(t)
        \/ ManifestLoad(t)
        \/ SubmitReply(t)
        \/ AuthChallenge(t)
        \/ UsernameAnswer(t)
        \/ PasswordAnswer(t)
        \/ UrlAnswer(t)
        \/ NameCheck(t)
        \/ Mkdir(t)
        \/ InitReply(t)
        \/ ManifestSave(t)
        \/ ConfLoad(t)
        \/ TemplateCopy(t)
        \/ OpenFolder(t)

Spec == Init /\ [][Next]_vars

\* the process bridge alone: no command is ever triggered
InitBridge ==
    /\ tasks = <<>>
    /\ srcM = Absent
    /\ exeM = Absent
    /\ vacant = {}
    /\ dir = <<"/", "w">>
    /\ BridgeInit

SpecBridge == InitBridge /\ [][BridgeNext]_vars

\* the process bridge with the one callback the client registers when it
\* creates the bridge
InitFrame ==
    /\ tasks = <<>>
    /\ srcM = Absent
    /\ exeM = Absent
    /\ vacant = {}
    /\ dir = <<"/", "w">>
    /\ kid = "running"
    /\ stdout = <<>>
    /\ ended = FALSE
    /\ buffer = <<>>
    /\ listeners = 1
    /\ received = [i \in 1..MaxHandlers |-> <<>>]
    /\ emitted = <<>>
    /\ tail = <<>>
    /\ chunks = 0
    /\ stdin = <<>>
    /\ afterExit = <<>>
    /\ bridgeErr = "none"

FrameNext ==
    \/ \E r \in Reactions : WorkerEmit(r)
    \/ \E t \in Truncated \cup {<<>>} : WorkerExit(t)
    \/ DataEvent
    \/ StreamEnd

SpecFrame == InitFrame /\ [][FrameNext]_vars

---------------------------------------------------------------------------
(* Claims about the orchestrator, checked under Spec *)

\* the Impulses a task has sent
Sent(r) == r.nbuild + r.ntest + r.nsubmit + r.ninit

\* C1: whenever the Test step of a triggerSubmit call reports false, no
\* submit Impulse has been sent by the call, the manifest has not been
\* loaded, and the call has failed with PreconditionFailed.
C1_SubmitHardStop ==
    \A t \in TaskIds :
        (tasks[t].cmd = "submit" /\ tasks[t].reported = "false") =>
            /\ tasks[t].nsubmit = 0
            /\ tasks[t].manifest = "unloaded"
            /\ tasks[t].pc = "done"
            /\ tasks[t].out = "PreconditionFailed"

C1_Witness ==
    \E t \in TaskIds :
        /\ tasks[t].cmd = "submit"
        /\ tasks[t].reported = "false"
        /\ tasks[t].out = "PreconditionFailed"

\* C2: when requiresCompilation answered true, a test Impulse is sent only
\* after one build Impulse was sent and the build completed successfully; no
\* test Impulse follows a failed build; the test Impulse names base/main.e
\* and base/tests; triggerTest returns the boolean the worker reported.
C2_TestOrdering ==
    \A t \in TaskIds :
        LET r == tasks[t]
        IN  /\ (r.rc = "true" /\ r.ntest > 0) =>
                   (r.nbuild = 1 /\ r.buildRes = "ok")
            /\ (r.rc = "true" /\ r.nbuild > 0) =>
                   r.buildSrc = dir \o <<"/", "m", "a", "i", "n", ".", "c", "p", "p">>
            /\ r.buildRes = "fail" =>
                   (r.ntest = 0 /\ r.pc = "done" /\ r.out # "ok")
            /\ r.ntest > 0 =>
                   /\ r.testExe = dir \o <<"/", "m", "a", "i", "n", ".", "e">>
                   /\ r.testDir = dir \o <<"/", "t", "e", "s", "t", "s">>
            /\ r.ret # "none" => r.ret = r.reported
            /\ (r.cmd = "test" /\ r.pc = "done" /\ r.out = "ok") =>
                   (r.ret \in {"true", "false"} /\ r.ret = r.reported)

C2_Witness ==
    \E t \in TaskIds :
        /\ tasks[t].cmd = "test"
        /\ tasks[t].rc = "true"
        /\ tasks[t].buildRes = "ok"
        /\ tasks[t].out = "ok"
        /\ tasks[t].ret = "false"

\* the step in which requiresCompilation of task t returns or throws
RequiresCompilationEnds(t) ==
    /\ tasks[t].pc \in {"statSrc", "statExe"}
    /\ tasks'[t].pc \notin {"statSrc", "statExe"}

\* the stat of the source that the call of task t works with
SourceStat(t) == IF tasks[t].pc = "statSrc" THEN srcM ELSE tasks[t].statsrc

\* C3: requiresCompilation returns true whenever the executable is absent,
\* whatever the state of the source file; false whenever the executable is
\* at least as new as the source; true whenever the source is newer.
C3_Freshness ==
    [][\A t \in TaskIds :
          RequiresCompilationEnds(t) =>
              /\ ~exeM.present => tasks'[t].rc = "true"
              /\ (exeM.present /\ SourceStat(t).present
                    /\ exeM.mtime >= SourceStat(t).mtime) => tasks'[t].rc = "false"
              /\ (exeM.present /\ SourceStat(t).present
                    /\ SourceStat(t).mtime > exeM.mtime) => tasks'[t].rc = "true"
      ]_vars

\* the prompts of the authentication round trip
AuthPending == {"askUser", "askPass"}

\* one challenge, one username prompt, then one password prompt, then the
\* credentials
AuthOrderly(r) ==
    /\ r.nauth <= 1
    /\ r.nuser = r.nauth
    /\ r.npass <= r.nuser
    /\ r.ncreds <= r.npass
    /\ r.pc = "askUser" => (r.nuser = 1 /\ r.npass = 0)
    /\ r.pc = "askPass" => (r.nuser = 1 /\ r.npass = 1 /\ r.ncreds = 0)
    /\ r.ncreds = 1 => (r.nuser = 1 /\ r.npass = 1)
    /\ r.out = "PromptCancelled" => r.ncreds = 0

\* C4 as claimed: after a challenge there is one username prompt, then one
\* password prompt, and while the prompts are pending no Impulse at all is
\* sent to the worker, not even by another command.
C4_AsClaimed ==
    [][\A t \in TaskIds :
          /\ AuthOrderly(tasks'[t])
          /\ tasks[t].pc \in AuthPending =>
                \A u \in TaskIds : Sent(tasks'[u]) = Sent(tasks[u])
      ]_vars

\* C4, amended: after a challenge the triggering call shows one username
\* prompt and, once it is answered, one password prompt; the credentials go
\* back only after both were answered, a dismissed prompt fails the call
\* without credentials, and the triggering call sends no Impulse while its
\* prompts are pending.  Other commands are not held back.
C4_AuthRoundTrip ==
    [][\A t \in TaskIds :
          /\ AuthOrderly(tasks'[t])
          /\ tasks[t].pc \in AuthPending =>
                /\ Sent(tasks'[t]) = Sent(tasks[t])
                /\ tasks'[t].pc \in AuthPending \cup {"done", WorkerCall(tasks[t])}
                /\ tasks'[t].pc = "done" => tasks'[t].out = "PromptCancelled"
                /\ tasks'[t].ncreds = 1 <=> tasks'[t].pc = WorkerCall(tasks[t])
      ]_vars

C4_Witness ==
    \E t \in TaskIds :
        /\ tasks[t].cmd = "submit"
        /\ tasks[t].pc = "submitWait"
        /\ tasks[t].ncreds = 1

\* C5: randomProjectName(5) makes at most 5 existence checks: it starts
\* with 5 tries and every check either returns the sampled name, which did
\* not exist when checked, or uses up one try; it fails with NoFreeNameFound
\* only when the fifth check found an existing name, and then triggerInit
\* has created no directory and sent no init Impulse.
C5_BoundedNameSearch ==
    [][\A t \in TaskIds :
          LET r == tasks[t]
              q == tasks'[t]
          IN  /\ (r.pc = "askURL" /\ q.pc = "naming") => q.tries = Tries
              /\ (r.pc = "naming" /\ q # r) =>
                    /\ r.tries \in 1..Tries
                    /\ \/ q.pc = "mkdir" /\ q.name \in vacant
                       \/ q.pc = "naming" /\ r.tries > 1 /\ q.tries = r.tries - 1
                       \/ /\ r.tries = 1
                          /\ q.pc = "done"
                          /\ q.out = "NoFreeNameFound"
              /\ q.out = "NoFreeNameFound" => (q.nmkdir = 0 /\ q.ninit = 0)
      ]_vars

C5_Witness ==
    \E t \in TaskIds :
        /\ tasks[t].cmd = "init"
        /\ tasks[t].out = "NoFreeNameFound"

\* exactly one of the 100 names is free and no command has made a directory
OneNameFree ==
    /\ Cardinality(vacant) = 1
    /\ \A u \in TaskIds : tasks[u].nmkdir = 0

\* C6 as claimed: with 99 of the 100 names taken, randomProjectName returns
\* the free name in every execution: it never ends in failure.
C6_AsClaimed ==
    OneNameFree => \A t \in TaskIds : tasks[t].out # "NoFreeNameFound"

\* C6, amended: with 99 of the 100 names taken, a check either samples the
\* free name, which randomProjectName then returns, or samples a taken name
\* and uses up a try; after five taken samples the call fails with
\* NoFreeNameFound.  A taken name is never returned.
C6_CollisionHandling ==
    [][\A t \in TaskIds :
          LET r == tasks[t]
              q == tasks'[t]
          IN  (OneNameFree /\ r.pc = "naming" /\ q # r) =>
                 \/ q.pc = "mkdir" /\ {q.name} = vacant
                 \/ q.pc = "naming" /\ q.tries = r.tries - 1 /\ q.tries >= 1
                 \/ q.out = "NoFreeNameFound" /\ r.tries = 1
      ]_vars

C6_Witness ==
    \E t \in TaskIds :
        /\ OneNameFree
        /\ tasks[t].pc = "mkdir"
        /\ {tasks[t].name} = vacant

---------------------------------------------------------------------------
(* Claims about the process bridge, checked under SpecBridge; the claim   *)
(* about a single callback is checked under SpecFrame                     *)

\* the number of bytes the 'data' events have carried
Consumed == Len(Stream(emitted)) + Len(tail) - Len(stdout)

\* how many of the Reactions rs lie, up to their closing brace, within the
\* first n bytes of their stream
RECURSIVE CompleteIn(_, _)
CompleteIn(rs, n) ==
    IF rs = <<>> THEN 0
    ELSE IF Len(Encode(Head(rs))) <= n
         THEN 1 + CompleteIn(Tail(rs), n - Len(Encode(Head(rs))) - 1)
         ELSE 0

\* the Reactions whose documents have arrived completely
Arrived == SubSeq(emitted, 1, CompleteIn(emitted, Consumed))

\* C7: every callback registered with recv has been called exactly once for
\* each Reaction that has arrived, in arrival order, however many callbacks
\* are registered and however the output is cut into chunks.
C7_SubscriptionDelivery ==
    \A h \in 1..listeners : received[h] = Arrived

\* C8: with a single callback, the Reactions delivered are exactly the
\* Reactions whose documents have arrived completely, in order, for every
\* sequence of Reactions and every cut of the bytes into chunks; a partial
\* document delivers nothing and the decoder reports no error.
C8_FrameRoundTrip ==
    listeners = 1 =>
        /\ received[1] = Arrived
        /\ bridgeErr = "none"
        /\ (stdout = <<>> /\ tail = <<>>) => (received[1] = emitted /\ buffer = <<>>)

\* one Reaction delivered, and the next one cut between the backslash and
\* the quote it escapes
C8_Witness ==
    /\ listeners = 1
    /\ emitted = <<"info_message", "console_log">>
    /\ received[1] = <<"info_message">>
    /\ buffer = <<"{", Quote, Backslash>>

\* C9: every send call made after the worker exited has failed with
\* WorkerTerminated.
C9_SendAfterExit ==
    \A i \in 1..Len(afterExit) : afterExit[i] = "WorkerTerminated"

\* C10: when the output stream has ended with an incomplete document in the
\* decoder's buffer, the bridge has failed with ProtocolError.
C10_IncompleteAtEnd ==
    (ended /\ buffer # <<>>) => bridgeErr = "ProtocolError"

---------------------------------------------------------------------------
(* Further claims about the orchestrator, checked under Spec *)

\* C11: whenever a triggered command has failed, the failure is the outcome
\* of the command as its caller sees it, and the rejection is not dropped.
C11_ErrorPropagation ==
    \A t \in TaskIds :
        (tasks[t].pc = "done" /\ tasks[t].out # "ok") =>
            (tasks[t].command = tasks[t].out /\ ~tasks[t].dropped)

\* the pcs at which a task waits for showInputBox
Prompts == {"askURL", "askUser", "askPass"}

\* the side effects and prompts of a task, as counted so far
Effects(r) ==
    <<r.nbuild, r.ntest, r.nsubmit, r.ninit, r.nmkdir, r.nuser, r.npass,
      r.ncreds, r.saved, r.copied, r.opened>>

\* C12: when a prompt settles, the call either goes on with the text that
\* was entered, the empty text included, or - exactly when the prompt was
\* dismissed - fails with PromptCancelled; a call that failed so takes no
\* further step: no existence check, mkdir, init Impulse, password prompt
\* or credentials follow.
C12_PromptCancellation ==
    [][\A t \in TaskIds :
          LET r == tasks[t]
              q == tasks'[t]
          IN  /\ (r.pc \in Prompts /\ q # r) =>
                    \/ /\ q.pc = "done"
                       /\ q.maybe = "undefined"
                       /\ q.out = "PromptCancelled"
                       /\ Effects(q) = Effects(r)
                    \/ /\ q.pc # "done"
                       /\ q.maybe \in {"", "u"}
                       /\ q.pc = CASE r.pc = "askURL"  -> "naming"
                                   [] r.pc = "askUser" -> "askPass"
                                   [] r.pc = "askPass" -> WorkerCall(r)
              /\ r.pc = "done" => q = r
      ]_vars

\* a prompt was answered with the empty text and the call went on
C12_Witness ==
    \E t \in TaskIds :
        /\ tasks[t].pc = "askPass"
        /\ tasks[t].maybe = ""

\* C13: a submit Impulse is sent only after the manifest was loaded in the
\* same call and carries the task URL of that manifest; when the manifest is
\* missing or unparsable the call has failed with that error and no submit
\* Impulse was sent.
C13_SubmitNeedsManifest ==
    \A t \in TaskIds :
        LET r == tasks[t]
        IN  /\ r.nsubmit > 0 =>
                  /\ r.cmd = "submit"
                  /\ r.manifest = "loaded"
                  /\ r.taskUrl \in Urls
                  /\ r.submitUrl = r.taskUrl
            /\ r.manifest \in {"ManifestMissing", "ManifestCorrupt"} =>
                  /\ r.nsubmit = 0
                  /\ r.pc = "done"
                  /\ r.out = r.manifest

\* one call submitted with the URL of its manifest, another stopped at a
\* missing manifest
C13_Witness ==
    \E t, u \in TaskIds :
        /\ tasks[t].nsubmit = 1
        /\ tasks[t].submitUrl = "v"
        /\ tasks[u].out = "ManifestMissing"

\* C14: every password prompt is issued with the password (no echo) option
\* and every username prompt without it.
C14_PasswordSecrecy ==
    \A t \in TaskIds :
        /\ tasks[t].pc = "askPass" => tasks[t].masked
        /\ tasks[t].pc = "askUser" => ~tasks[t].masked

\* C15: a call that was aborted by a dismissed prompt has left no partial
\* side effect behind: it created no project directory that lacks its
\* manifest and its template source.
C15_CleanAbort ==
    \A t \in TaskIds :
        (tasks[t].out = "PromptCancelled" /\ tasks[t].nmkdir > 0) =>
            (tasks[t].saved /\ tasks[t].copied)

\* the position of a pc in the order of the steps of triggerInit
InitRank(pc) ==
    CASE pc = "idle"         -> 0
      [] pc = "askURL"       -> 1
      [] pc = "naming"       -> 2
      [] pc = "mkdir"        -> 3
      [] pc \in {"initWait", "askUser", "askPass"} -> 4
      [] pc = "saveManifest" -> 5
      [] pc = "loadConf"     -> 6
      [] pc = "copy"         -> 7
      [] pc = "openFolder"   -> 8
      [] pc = "done"         -> 9

\* C16: a triggerInit call goes through URL prompt, name search, mkdir,
\* worker init (with its authentication round trip), manifest save,
\* configuration load, template copy and context switch in this order, one
\* step at a time, and leaves the order only by failing; so the init Impulse
\* follows the mkdir, the manifest is saved only after the worker's init
\* succeeded, and the folder is opened only with manifest and template in
\* place.
C16_InitStepOrder ==
    [][\A t \in TaskIds :
          LET r == tasks[t]
              q == tasks'[t]
          IN  (q.cmd = "init" /\ q # r) =>
                 /\ \/ InitRank(q.pc) = InitRank(r.pc) + 1
                    \/ InitRank(q.pc) = InitRank(r.pc) /\ InitRank(q.pc) \in {2, 4}
                    \/ q.pc = "done" /\ q.out # "ok"
                 /\ (q.pc = "done" /\ q.out = "ok") => r.pc = "openFolder"
                 /\ q.ninit > 0 => q.nmkdir = 1
                 /\ q.saved => (q.ninit = 1 /\ InitRank(q.pc) >= 6)
                 /\ q.copied => (q.saved /\ InitRank(q.pc) >= 8)
                 /\ q.opened => (q.saved /\ q.copied /\ q.out = "ok")
      ]_vars

C16_Witness ==
    \E t \in TaskIds :
        /\ tasks[t].cmd = "init"
        /\ tasks[t].ncreds = 1
        /\ tasks[t].opened
        /\ tasks[t].out = "ok"

\* C17: every build Impulse is sent by the step in which the saveAll of the
\* same triggerBuild call completed, and only when that saveAll saved every
\* document; a failed flush is followed by no build Impulse.
C17_FlushBeforeBuild ==
    [][\A t \in TaskIds :
          tasks'[t].nbuild > tasks[t].nbuild =>
              (tasks[t].pc = "saveBuild" /\ tasks'[t].flush = "saved")
      ]_vars

\* a command is in flight
InFlight(r) == r.pc \notin {"idle", "done"}

\* C18 as claimed: a command starts only when no other command is in flight,
\* and while a command is in flight no other command sends an Impulse.
C18_AsClaimed ==
    [][\A t, u \in TaskIds :
          (t # u /\ InFlight(tasks[u])) =>
              /\ tasks[t].cmd = "none" => tasks'[t].cmd = "none"
              /\ Sent(tasks'[t]) = Sent(tasks[t])
      ]_vars

\* C18, amended: commands are not mutually exclusive, a command starts
\* whenever it is triggered.  Within one command there is no fan-out: a step
\* sends at most one Impulse, the test Impulse of a call that built follows
\* the successful end of its build, and the submit Impulse follows a test
\* that passed.
C18_SequentialWithinCommand ==
    [][\A t \in TaskIds :
          LET r == tasks[t]
              q == tasks'[t]
          IN  /\ Sent(q) \in {Sent(r), Sent(r) + 1}
              /\ (q.ntest > r.ntest /\ q.nbuild > 0) => q.buildRes = "ok"
              /\ q.nsubmit > r.nsubmit => (q.ntest = 1 /\ q.reported = "true")
              /\ (r.cmd = "none" /\ q.cmd # "none") => InFlight(q)
      ]_vars

\* two commands in flight at once, each waiting for the worker
C18_Witness ==
    /\ tasks[1].pc = "submitWait"
    /\ tasks[1].nbuild = 1
    /\ tasks[2].pc = "buildWait"

\* C19: a triggered command sends each kind of Impulse at most once and only
\* the kinds of its workflow; a failed worker call ends the command; the
\* name search holds at most 5 tries.
C19_NoRetry ==
    \A t \in TaskIds :
        LET r == tasks[t]
        IN  /\ r.nbuild <= 1 /\ r.ntest <= 1 /\ r.nsubmit <= 1 /\ r.ninit <= 1
            /\ r.cmd = "build" => (r.ntest = 0 /\ r.nsubmit = 0 /\ r.ninit = 0)
            /\ r.cmd = "test" => (r.nsubmit = 0 /\ r.ninit = 0)
            /\ r.cmd = "submit" => r.ninit = 0
            /\ r.cmd = "init" => (r.nbuild = 0 /\ r.ntest = 0 /\ r.nsubmit = 0)
            /\ (r.buildRes = "fail" \/ r.reported = "fail") => r.pc = "done"
            /\ r.out = "WorkerFailure" => r.pc = "done"
            /\ r.tries \in 0..Tries

C19_Witness ==
    \E t \in TaskIds :
        /\ tasks[t].cmd = "submit"
        /\ tasks[t].nbuild = 1
        /\ tasks[t].ntest = 1
        /\ tasks[t].nsubmit = 1
        /\ tasks[t].out = "WorkerFailure"

\* C20: in a triggerTest or triggerSubmit call the source is stat'ed only
\* by the step in which the saveAll of requiresCompilation completed, and the
\* executable after the source; the test Impulse is sent only after
\* requiresCompilation returned; when it returned false the call sends no
\* build Impulse.
C20_FreshnessAfterFlush ==
    [][\A t \in TaskIds :
          LET r == tasks[t]
              q == tasks'[t]
          IN  /\ (q.pc = "statSrc" /\ r.pc # "statSrc") =>
                    /\ r.pc = "saveCheck"
                    /\ q.nflush >= 1
                    /\ q.flush \in {"saved", "unsaved"}
              /\ (q.pc = "statExe" /\ r.pc # "statExe") => r.pc = "statSrc"
              /\ q.rc # "unset" => q.cmd \in {"test", "submit"}
              /\ q.ntest > r.ntest => q.rc \in {"true", "false"}
              /\ q.rc = "false" => q.nbuild = 0
      ]_vars

C20_Witness ==
    \E t \in TaskIds :
        /\ tasks[t].cmd = "submit"
        /\ tasks[t].rc = "false"
        /\ tasks[t].ntest = 1
        /\ tasks[t].nbuild = 0

===========================================================================
